---- MODULE Spec2Model ----
(***************************************************************************)
(* Model of cyclonedx.model.bom (src/cyclonedx/model/bom.py): the classes  *)
(* BomMetaData and Bom, the SortedSet-backed collections of a Bom and       *)
(* Bom.validate().                                                          *)
(*                                                                          *)
(* Component and Service objects live on a heap: a Bom holds references to  *)
(* them, so the described component (metadata.component) and a member of    *)
(* the components collection may be one and the same object.                *)
(***************************************************************************)
EXTENDS Integers, Sequences, FiniteSets, TLC

VARIABLES
    bom,        \* the Bom under test: [uuid, metadata, components, services, external_references]
    deps,       \* heap: Component object -> its `dependencies` set of bom-refs
    uuid0,      \* ghost: the value uuid4() returned in Bom.__init__
    inserted,   \* ghost: Component objects put into bom.components since it was last (re)built
    calls,      \* ghost: validate() calls since the Bom was last modified (capped at 2)
    last,       \* outcome of the latest validate() call
    prev,       \* outcome of the validate() call before it
    failedBefore, \* ghost: the latest validate() call made before the last modification raised
    now,        \* the clock datetime.now() reads
    objA,       \* construct-and-compare scenario: first object built
    objB,       \* construct-and-compare scenario: second object built
    cmp         \* construct-and-compare scenario: outcome of the latest ==

vars == <<bom, deps, uuid0, inserted, calls, last, prev, failedBefore, now, objA, objB, cmp>>

---------------------------------------------------------------------------
(* Bounds *)

\* longest iterable handed to a constructor, setter or update()
MaxListLen == 2
\* most dependency references declared over all Component objects together
MaxEdges == 2
\* latest clock reading
MaxClock == 2

---------------------------------------------------------------------------
(* The objects the environment can hand to the Bom *)

None == "None"

\* Component objects. c_liba and c_liba2 are two distinct objects with the
\* same name, version and bom_ref.
ComponentObjs == {"c_root", "c_liba", "c_liba2"}

CompAttr(c) ==
    CASE c = "c_root"  -> [name |-> "app", version |-> "1.0.0", bom_ref |-> "root"]
      [] c = "c_liba"  -> [name |-> "lib", version |-> "1.0.0", bom_ref |-> "lib-a"]
      [] c = "c_liba2" -> [name |-> "lib", version |-> "1.0.0", bom_ref |-> "lib-a"]

\* Package URLs. A value is tagged with its Python type: a PackageURL object
\* and the str that spells the same package URL are different values.
PackageURL(text) == [kind |-> "PackageURL", text |-> text]
Str(text) == [kind |-> "str", text |-> text]
NoPurl == [kind |-> "NoneType", text |-> ""]

\* PackageURL.to_string()
PurlToString(purl) == Str(purl.text)

\* Component.purl. c_root and c_liba are packaged under one package URL,
\* c_liba2 was built without one.
CompPurl(c) ==
    CASE c = "c_root"  -> PackageURL("pkg:pypi/lib@1.0.0")
      [] c = "c_liba"  -> PackageURL("pkg:pypi/lib@1.0.0")
      [] c = "c_liba2" -> NoPurl

\* what a caller may pass to get_component_by_purl: None, the empty str, the
\* str form of a package URL that components carry and of one that none
\* carries, and the same two as PackageURL objects
PurlArgs ==
    {NoPurl, Str(""),
     Str("pkg:pypi/lib@1.0.0"), Str("pkg:pypi/other@1.0.0"),
     PackageURL("pkg:pypi/lib@1.0.0"), PackageURL("pkg:pypi/other@1.0.0")}

ServiceObjs == {"s_1"}

SvcAttr(s) ==
    CASE s = "s_1" -> [name |-> "my-first-service", bom_ref |-> "svc-1"]

ExternalReferenceObjs == {"xref_1"}

\* Tool objects; ThisTool is the module-level sentinel for this library itself
ThisTool == "ThisTool"
ToolObjs == {ThisTool, "tool_1"}

ToolAttr(t) ==
    CASE t = ThisTool -> [vendor |-> "CycloneDX", name |-> "cyclonedx-python-lib"]
      [] t = "tool_1" -> [vendor |-> "CycloneDX", name |-> "other-tool"]

\* bom-refs a Component may declare a dependency on; each is missing from a
\* Bom that holds no object carrying it
DepRefs == {"root", "lib-a", "svc-1"}

\* results of uuid4() (no two calls return the same), and the values a caller
\* may assign to Bom.uuid
GeneratedUuid == "uuid-generated-1"
SecondUuid == "uuid-generated-2"
Uuids == {GeneratedUuid, "uuid-mock-1"}

\* strings in lexicographic order, for the ordering of the sorted collections
StrOrder ==
    <<"1.0.0", "CycloneDX", "app", "cyclonedx-python-lib", "lib", "lib-a", "other-tool", "root">>
StrRank(s) == CHOOSE i \in 1..Len(StrOrder) : StrOrder[i] = s

\* iterables of Component objects of bounded length (duplicates allowed)
ComponentLists == UNION {[1..n -> ComponentObjs] : n \in 0..MaxListLen}

\* iterables of Tool objects of bounded length (duplicates allowed)
ToolLists == UNION {[1..n -> ToolObjs] : n \in 0..MaxListLen}

\* An optional argument: None, or the iterable given
Nothing == [none |-> TRUE, items |-> <<>>]
Some(xs) == [none |-> FALSE, items |-> xs]
NothingSet == [none |-> TRUE, items |-> {}]

\* `arg or []` for a list argument and for a set argument
OrEmptyList(a) == IF a.none \/ Len(a.items) = 0 THEN <<>> ELSE a.items
OrEmptySet(a) == IF a.none \/ a.items = {} THEN {} ELSE a.items

---------------------------------------------------------------------------
(* Identity and ordering of the entities kept in sorted collections *)

\* the attribute tuple that decides equality and order of an entity
SortKeys ==
    [x \in ComponentObjs \cup ToolObjs |->
        IF x \in ComponentObjs
        THEN <<StrRank(CompAttr(x).name), StrRank(CompAttr(x).version),
               StrRank(CompAttr(x).bom_ref)>>
        ELSE <<StrRank(ToolAttr(x).vendor), StrRank(ToolAttr(x).name), 0>>]

SortKey(x) == SortKeys[x]

ValueEq(x, y) == SortKey(x) = SortKey(y)

ValueLt(x, y) ==
    LET a == SortKey(x)
        b == SortKey(y)
    IN  \/ a[1] < b[1]
        \/ a[1] = b[1] /\ a[2] < b[2]
        \/ a[1] = b[1] /\ a[2] = b[2] /\ a[3] < b[3]

---------------------------------------------------------------------------
(* sortedcontainers.SortedSet, as a sorted sequence without equal values *)

\* `x in sorted_set`
Contains(s, x) == \E i \in 1..Len(s) : ValueEq(s[i], x)

\* sorted_set.add(x): a no-op when an equal value is present
SortedSetAdd(s, x) ==
    IF Contains(s, x)
    THEN s
    ELSE LET k == Cardinality({i \in 1..Len(s) : ValueLt(s[i], x)})
         IN  SubSeq(s, 1, k) \o <<x>> \o SubSeq(s, k + 1, Len(s))

\* sorted_set.update(xs)
RECURSIVE SortedSetUpdate(_, _)
SortedSetUpdate(s, xs) ==
    IF Len(xs) = 0 THEN s ELSE SortedSetUpdate(SortedSetAdd(s, Head(xs)), Tail(xs))

\* SortedSet(xs)
SortedSet(xs) == SortedSetUpdate(<<>>, xs)

\* the members of a collection
Elems(s) == {s[i] : i \in 1..Len(s)}

---------------------------------------------------------------------------
(* BomMetaData and Bom construction *)

\* BomMetaData.__init__ that adds ThisTool whatever the caller supplied
NewBomMetaDataAlwaysThisTool(tools, component, t) ==
    [timestamp |-> t,
     tools     |-> SortedSetAdd(SortedSet(OrEmptyList(tools)), ThisTool),
     component |-> component]

\* BomMetaData.__init__(tools=..., component=...) at clock reading t
NewBomMetaData(tools, component, t) ==
    LET given == SortedSet(OrEmptyList(tools))
    IN  [timestamp |-> t,
         tools     |-> IF tools.none \/ Len(tools.items) = 0
                       THEN SortedSetAdd(given, ThisTool)
                       ELSE given,
         component |-> component]

\* Bom.__init__(components=..., services=..., external_references=...) at clock
\* reading t, uuid4() returning u
NewBom(components, services, external_references, t, u) ==
    [uuid                |-> u,
     metadata            |-> NewBomMetaData(Nothing, None, t),
     components          |-> SortedSet(OrEmptyList(components)),
     services            |-> OrEmptySet(services),
     external_references |-> OrEmptySet(external_references)]

---------------------------------------------------------------------------
(* Bom queries *)

\* Bom.get_urn_uuid()
GetUrnUuid(b) == <<"urn:uuid:", b.uuid>>

\* Bom.has_component(component)
HasComponent(b, c) == Contains(b.components, c)

\* bool(purl) in `if purl:`
Truthy(purl) == purl.kind # "NoneType" /\ purl # Str("")

\* x.purl == purl: a PackageURL is a tuple, and a tuple never equals a str
PurlEq(x, y) == x.kind = y.kind /\ x.text = y.text

\* Bom.get_component_by_purl(purl)
GetComponentByPurl(b, purl) ==
    IF Truthy(purl)
    THEN LET Matches(x) == PurlEq(CompPurl(x), purl)
             found == SelectSeq(b.components, Matches)
         IN  IF Len(found) = 1 THEN found[1] ELSE None
    ELSE None

---------------------------------------------------------------------------
(* Bom.validate() *)

\* all_bom_refs with the services left out
AllBomRefsNoServices(b) ==
    (IF b.metadata.component # None THEN {CompAttr(b.metadata.component).bom_ref} ELSE {})
    \cup {CompAttr(c).bom_ref : c \in Elems(b.components)}

\* all_bom_refs
AllBomRefs(b) ==
    (IF b.metadata.component # None THEN {CompAttr(b.metadata.component).bom_ref} ELSE {})
    \cup {CompAttr(c).bom_ref : c \in Elems(b.components)}
    \cup {SvcAttr(s).bom_ref : s \in b.services}

\* all_dependency_bom_refs
AllDependencyBomRefs(b) == UNION {deps[c] : c \in Elems(b.components)}

\* dependency_diff cut down to the first unresolved reference found
DependencyDiffFirstOnly(b) ==
    LET diff == AllDependencyBomRefs(b) \ AllBomRefs(b)
    IN  IF diff = {} THEN {} ELSE {CHOOSE r \in diff : TRUE}

\* dependency_diff
DependencyDiff(b) == AllDependencyBomRefs(b) \ AllBomRefs(b)

\* the second check, silenced when some component depends on the described one
IncompleteGraphUnlessReferenced(b) ==
    /\ b.metadata.component # None
    /\ deps[b.metadata.component] = {}
    /\ CompAttr(b.metadata.component).bom_ref \notin AllDependencyBomRefs(b)

\* the second check: the described component has no dependencies of its own
IncompleteGraph(b) ==
    b.metadata.component # None /\ deps[b.metadata.component] = {}

NoOutcome == [result |-> "none", warned |-> FALSE, unresolved |-> {}]

\* Bom.validate() with the two checks in the other order: the warning is
\* given before the dependency check raises
ValidateOutcomeWarnFirst(b) ==
    IF Cardinality(DependencyDiff(b)) > 0
    THEN [result |-> "UnknownComponentDependencyException", warned |-> IncompleteGraph(b),
          unresolved |-> DependencyDiff(b)]
    ELSE [result |-> "True", warned |-> IncompleteGraph(b), unresolved |-> {}]

\* what one call of validate() does: raise with the unresolved references,
\* or return True after (maybe) warning
ValidateOutcome(b) ==
    IF Cardinality(DependencyDiff(b)) > 0
    THEN [result |-> "UnknownComponentDependencyException", warned |-> FALSE,
          unresolved |-> DependencyDiff(b)]
    ELSE [result |-> "True", warned |-> IncompleteGraph(b), unresolved |-> {}]


---------------------------------------------------------------------------
(* __hash__ and __eq__ of BomMetaData and Bom *)

\* hash(v) of a hashable value: distinct values are given distinct digests
\* (collisions of the built-in hash are left out)
HashValue(v) == [raised |-> FALSE, digest |-> <<v>>]

\* hash(sorted_set): SortedSet defines __eq__ and no __hash__, so the call
\* raises TypeError
SortedSetHash(s) == [raised |-> TRUE, digest |-> <<"TypeError: unhashable type: 'SortedSet'">>]

\* hash(component) for a Component or None
ComponentHash(c) == HashValue(IF c = None THEN <<None>> ELSE SortKey(c))

\* hash((h1, ..., hn)) given the outcomes of hashing the elements in order:
\* the first element that raises decides
TupleHash(hs) ==
    IF \E i \in 1..Len(hs) : hs[i].raised
    THEN hs[CHOOSE i \in 1..Len(hs) : hs[i].raised /\ \A j \in 1..(i - 1) : ~hs[j].raised]
    ELSE HashValue([i \in 1..Len(hs) |-> hs[i].digest])

\* BomMetaData.__hash__
BomMetaDataHash(m) ==
    TupleHash(<<HashValue(m.timestamp), SortedSetHash(m.tools), ComponentHash(m.component)>>)

\* Bom.__hash__
BomHash(b) ==
    TupleHash(<<HashValue(b.uuid),
                BomMetaDataHash(b.metadata),
                TupleHash([i \in 1..Len(b.components) |-> ComponentHash(b.components[i])]),
                HashValue(b.services),
                HashValue(b.external_references)>>)

\* hash(other) == hash(self): hash(other) is evaluated first
HashesEqual(hSelf, hOther) ==
    IF hOther.raised \/ hSelf.raised
    THEN "TypeError"
    ELSE IF hOther.digest = hSelf.digest THEN "True" ELSE "False"

\* BomMetaData.__eq__(self, other)
BomMetaDataEq(self, other) ==
    IF other.kind = "BomMetaData"
    THEN HashesEqual(BomMetaDataHash(self.value), BomMetaDataHash(other.value))
    ELSE "False"

\* Bom.__eq__(self, other)
BomEq(self, other) ==
    IF other.kind = "Bom"
    THEN HashesEqual(BomHash(self.value), BomHash(other.value))
    ELSE "False"


---------------------------------------------------------------------------
(* The values of the construct-and-compare scenario while it is not running *)

NoObject == [kind |-> "none"]
NoCmp == [result |-> "none"]

---------------------------------------------------------------------------
(* Specification Spec: one Bom, built, modified and validated *)

ComponentArgs == {Nothing} \cup {Some(l) : l \in ComponentLists}
ServiceArgs == {NothingSet} \cup {[none |-> FALSE, items |-> S] : S \in SUBSET ServiceObjs}
ExternalReferenceArgs ==
    {NothingSet} \cup {[none |-> FALSE, items |-> E] : E \in SUBSET ExternalReferenceObjs}

NoDeps == [c \in ComponentObjs |-> {}]

Edges(d) == {<<c, r>> \in ComponentObjs \X DepRefs : r \in d[c]}

\* bom = Bom(components=cs, services=ss, external_references=es)
InitBom ==
    \E cs \in ComponentArgs, ss \in ServiceArgs, es \in ExternalReferenceArgs :
        /\ bom = NewBom(cs, ss, es, 0, GeneratedUuid)
        /\ inserted = Elems(cs.items)

\* bom = Bom.from_parser(parser), parser.get_components() returning l
InitFromParser ==
    \E l \in ComponentLists :
        /\ bom = [NewBom(Nothing, NothingSet, NothingSet, 0, GeneratedUuid) EXCEPT
                    !.components = SortedSetUpdate(@, l)]
        /\ inserted = Elems(l)

Init ==
    /\ InitBom \/ InitFromParser
    /\ deps = NoDeps
    /\ uuid0 = bom.uuid
    /\ calls = 0
    /\ last = NoOutcome
    /\ prev = NoOutcome
    /\ failedBefore = FALSE
    /\ now = 0
    /\ objA = NoObject
    /\ objB = NoObject
    /\ cmp = NoCmp

\* a modification of the Bom: the outcomes of earlier validate() calls no
\* longer describe it; whether the latest of them raised is kept on record
Modified ==
    /\ calls' = 0
    /\ last' = NoOutcome
    /\ prev' = NoOutcome
    /\ failedBefore' = IF calls > 0
                       THEN last.result = "UnknownComponentDependencyException"
                       ELSE failedBefore
    /\ UNCHANGED <<uuid0, now, objA, objB, cmp>>

\* bom.components = l, keeping the iterable as given instead of a SortedSet
SetComponentsAsList(l) ==
    /\ bom' = [bom EXCEPT !.components = l]
    /\ inserted' = Elems(l)
    /\ UNCHANGED deps
    /\ Modified

\* bom.components = l
SetComponents(l) ==
    /\ bom' = [bom EXCEPT !.components = SortedSet(l)]
    /\ inserted' = Elems(l)
    /\ UNCHANGED deps
    /\ Modified

\* bom.components.add(c)
AddComponent(c) ==
    /\ bom' = [bom EXCEPT !.components = SortedSetAdd(@, c)]
    /\ inserted' = inserted \cup {c}
    /\ UNCHANGED deps
    /\ Modified

\* bom.components.update(l)
UpdateComponents(l) ==
    /\ bom' = [bom EXCEPT !.components = SortedSetUpdate(@, l)]
    /\ inserted' = inserted \cup Elems(l)
    /\ UNCHANGED deps
    /\ Modified

\* bom.components.discard(c)
DiscardComponent(c) ==
    /\ bom' = [bom EXCEPT !.components = SelectSeq(@, LAMBDA x : ~ValueEq(x, c))]
    /\ inserted' = {d \in inserted : ~ValueEq(d, c)}
    /\ UNCHANGED deps
    /\ Modified

\* bom.services = S
SetServices(S) ==
    /\ bom' = [bom EXCEPT !.services = S]
    /\ UNCHANGED <<deps, inserted>>
    /\ Modified

\* bom.services.add(s)
AddService(s) ==
    /\ bom' = [bom EXCEPT !.services = @ \cup {s}]
    /\ UNCHANGED <<deps, inserted>>
    /\ Modified

\* bom.external_references = E
SetExternalReferences(E) ==
    /\ bom' = [bom EXCEPT !.external_references = E]
    /\ UNCHANGED <<deps, inserted>>
    /\ Modified

\* bom.metadata.component = c
SetMetadataComponent(c) ==
    /\ bom' = [bom EXCEPT !.metadata.component = c]
    /\ UNCHANGED <<deps, inserted>>
    /\ Modified

\* bom.metadata = BomMetaData(component=c), drawing a new uuid as __init__ does
SetMetadataNewUuid(c) ==
    /\ bom' = [bom EXCEPT !.metadata = NewBomMetaData(Nothing, c, now), !.uuid = SecondUuid]
    /\ UNCHANGED <<deps, inserted>>
    /\ Modified

\* bom.metadata = BomMetaData(component=c)
SetMetadata(c) ==
    /\ bom' = [bom EXCEPT !.metadata = NewBomMetaData(Nothing, c, now)]
    /\ UNCHANGED <<deps, inserted>>
    /\ Modified

\* bom.uuid = u
SetUuid(u) ==
    /\ bom' = [bom EXCEPT !.uuid = u]
    /\ UNCHANGED <<deps, inserted>>
    /\ Modified

\* c.dependencies.add(r), for a Component object inside or outside the Bom
AddDependency(c, r) ==
    /\ r \notin deps[c]
    /\ Cardinality(Edges(deps)) < MaxEdges
    /\ deps' = [deps EXCEPT ![c] = @ \cup {r}]
    /\ UNCHANGED <<bom, inserted>>
    /\ Modified

\* c.dependencies.discard(r)
DiscardDependency(c, r) ==
    /\ r \in deps[c]
    /\ deps' = [deps EXCEPT ![c] = @ \ {r}]
    /\ UNCHANGED <<bom, inserted>>
    /\ Modified

\* bom.validate() that gives the warning on the first call only
ValidateWarnOnce ==
    /\ last' = [ValidateOutcome(bom) EXCEPT !.warned = @ /\ calls = 0]
    /\ prev' = last
    /\ calls' = IF calls < 2 THEN calls + 1 ELSE calls
    /\ UNCHANGED <<bom, deps, uuid0, inserted, failedBefore, now, objA, objB, cmp>>

\* bom.validate() that repairs what it finds: it drops the unresolved
\* references from the components' dependency sets
ValidatePruning ==
    /\ last' = ValidateOutcome(bom)
    /\ prev' = last
    /\ calls' = IF calls < 2 THEN calls + 1 ELSE calls
    /\ deps' = [c \in ComponentObjs |->
                  IF c \in Elems(bom.components)
                  THEN deps[c] \ DependencyDiff(bom)
                  ELSE deps[c]]
    /\ UNCHANGED <<bom, uuid0, inserted, failedBefore, now, objA, objB, cmp>>

\* bom.validate() that keeps an earlier failure on record: once a call has
\* raised, the call made after the next modification raises as well
ValidateRemembering ==
    /\ last' = IF failedBefore /\ calls = 0
               THEN [result |-> "UnknownComponentDependencyException", warned |-> FALSE,
                     unresolved |-> DependencyDiff(bom)]
               ELSE ValidateOutcome(bom)
    /\ prev' = last
    /\ calls' = IF calls < 2 THEN calls + 1 ELSE calls
    /\ UNCHANGED <<bom, deps, uuid0, inserted, failedBefore, now, objA, objB, cmp>>

\* bom.validate()
Validate ==
    /\ last' = ValidateOutcome(bom)
    /\ prev' = last
    /\ calls' = IF calls < 2 THEN calls + 1 ELSE calls
    /\ UNCHANGED <<bom, deps, uuid0, inserted, failedBefore, now, objA, objB, cmp>>

Next ==
    \/ \E l \in ComponentLists : SetComponents(l)
    \/ \E c \in ComponentObjs : AddComponent(c)
    \/ \E l \in ComponentLists : UpdateComponents(l)
    \/ \E c \in ComponentObjs : DiscardComponent(c)
    \/ \E S \in SUBSET ServiceObjs : SetServices(S)
    \/ \E s \in ServiceObjs : AddService(s)
    \/ \E E \in SUBSET ExternalReferenceObjs : SetExternalReferences(E)
    \/ \E c \in ComponentObjs \cup {None} : SetMetadataComponent(c)
    \/ \E c \in ComponentObjs \cup {None} : SetMetadata(c)
    \/ \E u \in Uuids : SetUuid(u)
    \/ \E c \in ComponentObjs, r \in DepRefs : AddDependency(c, r)
    \/ \E c \in ComponentObjs, r \in DepRefs : DiscardDependency(c, r)
    \/ Validate

Spec == Init /\ [][Next]_vars


---------------------------------------------------------------------------
(* Specification SpecNew: objects are built at successive clock readings    *)
(* and compared with ==                                                     *)

ToolArgs == {Nothing} \cup {Some(l) : l \in ToolLists}

\* BomMetaData(tools=tools, component=component)
MetaDataObject(tools, component, t) ==
    [kind  |-> "BomMetaData",
     args  |-> [tools |-> tools, component |-> component],
     value |-> NewBomMetaData(tools, component, t)]

\* Bom(components=cs, services=ss, external_references=es)
BomObject(cs, ss, es, t, u) ==
    [kind  |-> "Bom",
     args  |-> [components |-> cs, services |-> ss, external_references |-> es],
     value |-> NewBom(cs, ss, es, t, u)]

\* an object that is neither a Bom nor a BomMetaData
ForeignObject == [kind |-> "str", args |-> <<>>, value |-> "a string"]

\* the object built by the constructor call that built o, repeated at clock
\* reading t (uuid4() returning u)
Rebuilt(o, t, u) ==
    IF o.kind = "BomMetaData"
    THEN MetaDataObject(o.args.tools, o.args.component, t)
    ELSE BomObject(o.args.components, o.args.services, o.args.external_references, t, u)

InitNew ==
    /\ bom = NewBom(Nothing, NothingSet, NothingSet, 0, GeneratedUuid)
    /\ deps = NoDeps
    /\ uuid0 = GeneratedUuid
    /\ inserted = {}
    /\ calls = 0
    /\ last = NoOutcome
    /\ prev = NoOutcome
    /\ failedBefore = FALSE
    /\ now = 0
    /\ objA = NoObject
    /\ objB = NoObject
    /\ cmp = NoCmp

Pinned == UNCHANGED <<bom, deps, uuid0, inserted, calls, last, prev, failedBefore>>

\* time passes
Tick ==
    /\ now < MaxClock
    /\ now' = now + 1
    /\ UNCHANGED <<objA, objB, cmp>>
    /\ Pinned

\* a = BomMetaData(tools=tools, component=component)
BuildMetaData(tools, component) ==
    /\ objA = NoObject
    /\ objA' = MetaDataObject(tools, component, now)
    /\ UNCHANGED <<now, objB, cmp>>
    /\ Pinned

\* a = Bom(components=cs, services=ss, external_references=es)
BuildBom(cs, ss, es) ==
    /\ objA = NoObject
    /\ objA' = BomObject(cs, ss, es, now, GeneratedUuid)
    /\ UNCHANGED <<now, objB, cmp>>
    /\ Pinned

\* b = the same constructor call as the one that built a, made again
BuildAgain ==
    /\ objA # NoObject
    /\ objB = NoObject
    /\ objB' = Rebuilt(objA, now, SecondUuid)
    /\ UNCHANGED <<now, objA, cmp>>
    /\ Pinned

\* b = BomMetaData(), b = Bom() or b = an object of another type
BuildOther ==
    /\ objA # NoObject
    /\ objB = NoObject
    /\ objB' \in {MetaDataObject(Nothing, None, now),
                  BomObject(Nothing, NothingSet, NothingSet, now, SecondUuid),
                  ForeignObject}
    /\ UNCHANGED <<now, objA, cmp>>
    /\ Pinned

\* b.uuid = a.uuid
AssignSameUuid ==
    /\ objA.kind = "Bom"
    /\ objB.kind = "Bom"
    /\ objB' = [objB EXCEPT !.value.uuid = objA.value.uuid]
    /\ cmp' = NoCmp
    /\ UNCHANGED <<now, objA>>
    /\ Pinned

\* b.timestamp = a.timestamp, or b.metadata.timestamp = a.metadata.timestamp
AssignSameTimestamp ==
    /\ objA.kind \in {"Bom", "BomMetaData"}
    /\ objB.kind = objA.kind
    /\ objB' = IF objA.kind = "Bom"
               THEN [objB EXCEPT !.value.metadata.timestamp = objA.value.metadata.timestamp]
               ELSE [objB EXCEPT !.value.timestamp = objA.value.timestamp]
    /\ cmp' = NoCmp
    /\ UNCHANGED <<now, objA>>
    /\ Pinned

\* a == b
Compare ==
    /\ objA # NoObject
    /\ objB # NoObject
    /\ cmp' = [result |-> IF objA.kind = "Bom" THEN BomEq(objA, objB)
                          ELSE BomMetaDataEq(objA, objB)]
    /\ UNCHANGED <<now, objA, objB>>
    /\ Pinned

NextNew ==
    \/ Tick
    \/ \E tools \in ToolArgs, c \in ComponentObjs \cup {None} : BuildMetaData(tools, c)
    \/ \E cs \in ComponentArgs, ss \in ServiceArgs, es \in ExternalReferenceArgs :
          BuildBom(cs, ss, es)
    \/ BuildAgain
    \/ BuildOther
    \/ AssignSameUuid
    \/ AssignSameTimestamp
    \/ Compare

SpecNew == InitNew /\ [][NextNew]_vars


---------------------------------------------------------------------------
(* Properties of Spec *)

\* reference r is carried by the described component, a component of the
\* collection or a service of the Bom
Resolves(r) ==
    \/ bom.metadata.component # None /\ CompAttr(bom.metadata.component).bom_ref = r
    \/ \E c \in Elems(bom.components) : CompAttr(c).bom_ref = r
    \/ \E s \in bom.services : SvcAttr(s).bom_ref = r

\* every reference declared by a member of the components collection resolves
AllDeclaredResolve == \A c \in Elems(bom.components) : \A r \in deps[c] : Resolves(r)

\* the references declared by members of the collection that do not resolve
Unresolved == {r \in DepRefs : (\E c \in Elems(bom.components) : r \in deps[c]) /\ ~Resolves(r)}

\* validate() has been called on the Bom as it is now
Validated == calls > 0

\* C1: when every dependency reference declared by the members of the
\* components collection is in the identifier universe, validate() raises
\* nothing and returns True.
C1_ResolvedBomValidates ==
    (Validated /\ AllDeclaredResolve) => last.result = "True"

\* two components depending on each other, validated
C1_Witness ==
    /\ Validated
    /\ bom.metadata.component = None
    /\ \E c, d \in Elems(bom.components) :
          /\ c # d
          /\ CompAttr(d).bom_ref \in deps[c]
          /\ CompAttr(c).bom_ref \in deps[d]
    /\ last.result = "True"

\* C2: when some declared reference is not in the identifier universe,
\* validate() fails with UnknownComponentDependencyException and reports
\* exactly the declared references that are not in the universe.
C2_UnresolvedBomFails ==
    (Validated /\ ~AllDeclaredResolve) =>
        /\ last.result = "UnknownComponentDependencyException"
        /\ last.unresolved = Unresolved

\* a failed validation that reports two unresolved references
C2_Witness ==
    /\ Validated
    /\ last.result = "UnknownComponentDependencyException"
    /\ Cardinality(last.unresolved) = 2

\* C3: when the hard check passes validate() returns True whether or not it
\* warns, and it warns exactly when a described component is set and that
\* component declares no dependencies of its own.
C3_WarningIsAdvisory ==
    (Validated /\ AllDeclaredResolve) =>
        /\ last.result = "True"
        /\ last.warned <=>
             (bom.metadata.component # None /\ deps[bom.metadata.component] = {})

\* the described component is depended upon by a component, declares nothing
\* itself, and validate() warned and returned True
C3_Witness ==
    /\ Validated
    /\ bom.metadata.component # None
    /\ \E c \in Elems(bom.components) :
          /\ c # bom.metadata.component
          /\ CompAttr(bom.metadata.component).bom_ref \in deps[c]
    /\ last.result = "True"
    /\ last.warned

\* C4 as stated: whatever public operations were applied, Bom.uuid is the
\* value generated in __init__ and get_urn_uuid() is 'urn:uuid:' + that value.
C4_UuidNeverChanges ==
    /\ bom.uuid = uuid0
    /\ GetUrnUuid(bom) = <<"urn:uuid:", uuid0>>

\* C4 amended: Bom.uuid changes only in an assignment to Bom.uuid, every other
\* operation leaves it as it is, and get_urn_uuid() is always 'urn:uuid:'
\* followed by the current Bom.uuid.
C4_UuidChangesOnlyByAssignment ==
    [][/\ bom'.uuid # bom.uuid => \E u \in Uuids : SetUuid(u)
       /\ GetUrnUuid(bom') = <<"urn:uuid:", bom'.uuid>>]_vars

\* a Bom whose components, services, external references and described
\* component were set and that was validated, with the uuid of __init__
C4_Witness ==
    /\ Validated
    /\ Len(bom.components) > 0
    /\ bom.services # {}
    /\ bom.external_references # {}
    /\ bom.metadata.component # None
    /\ bom.uuid = uuid0
    /\ GetUrnUuid(bom) = <<"urn:uuid:", uuid0>>

C6_ComponentsAreASet ==
    /\ \A i, j \in 1..Len(bom.components) :
          i # j => ~ValueEq(bom.components[i], bom.components[j])
    /\ Len(bom.components) = Cardinality({SortKey(c) : c \in inserted})
    /\ \A c \in ComponentObjs :
          HasComponent(bom, c) <=> \E d \in inserted : ValueEq(c, d)

\* two value-equal Component objects were inserted and the collection holds one
C6_Witness ==
    /\ {"c_liba", "c_liba2"} \subseteq inserted
    /\ Len(bom.components) = 1
    /\ HasComponent(bom, "c_liba")
    /\ HasComponent(bom, "c_liba2")

\* C10: whenever validate() returns True, every dependency reference declared
\* by a component of the collection or by the described component resolves.
C10_ValidatedBomHasNoDanglingReference ==
    (Validated /\ last.result = "True") =>
        \A c \in Elems(bom.components) \cup ({bom.metadata.component} \ {None}) :
            \A r \in deps[c] : Resolves(r)


\* C11: validate() keeps no record of earlier calls. Whatever happened before,
\* a call raises exactly when the Bom as it is at that call has an unresolved
\* declared reference, and it reports that state's unresolved set and nothing
\* else; in particular, after a call that raised and a repair that leaves no
\* unresolved reference, the next call returns True.
C11_FailuresAreNotRemembered ==
    Validated =>
        /\ (last.result = "UnknownComponentDependencyException") <=> (Unresolved # {})
        /\ last.unresolved = Unresolved
        /\ (failedBefore /\ Unresolved = {}) => last.result = "True"

\* a validate() call raised, the Bom was modified until nothing was
\* unresolved, and the validate() call after that returned True
C11_Witness ==
    /\ Validated
    /\ failedBefore
    /\ Unresolved = {}
    /\ last.result = "True"

\* C12: validate() only reads. A step in which validate() is called, whether
\* the call returns True, warns or raises, leaves the Bom's uuid, its metadata
\* (timestamp, tools, described component), its components, services and
\* external references, and every component's dependency set as they were.
C12_ValidateIsReadOnly ==
    [][last'.result # "none" => UNCHANGED <<bom, deps>>]_vars

\* validate() has been called twice in a row and has raised on a Bom that has
\* a described component, a component and a dependency; all are still there
C12_Witness ==
    /\ calls = 2
    /\ last.result = "UnknownComponentDependencyException"
    /\ bom.metadata.component # None
    /\ bom.components # <<>>
    /\ Edges(deps) # {}

\* component c carries the package URL the argument stands for: the argument
\* is that PackageURL, or it is the str that spells it
CarriesPurl(c, purl) ==
    /\ CompPurl(c).kind = "PackageURL"
    /\ \/ purl = CompPurl(c)
       \/ purl = PurlToString(CompPurl(c))

\* C13: get_component_by_purl(purl) returns component c exactly when purl is
\* non-empty and c is the one and only member of the components collection
\* whose package URL is the argument; otherwise (purl None or empty, no member
\* with that package URL, two or more with it) it returns None, and what it
\* returns is always None or a member.
C13_OnlyMemberWithPurlIsReturned ==
    \A purl \in PurlArgs :
        LET members == Elems(bom.components)
            result == GetComponentByPurl(bom, purl)
        IN  /\ result \in members \cup {None}
            /\ \A c \in ComponentObjs :
                   (result = c) <=>
                       /\ Truthy(purl)
                       /\ c \in members
                       /\ CarriesPurl(c, purl)
                       /\ \A d \in members \ {c} : ~CarriesPurl(d, purl)

\* C14: inside one validate() call the dependency check comes before the
\* advisory check. A call that raises gives no warning, even when the
\* described component is set and has no dependencies; a warning comes only
\* from a call that returns True.
C14_FailingCallGivesNoWarning ==
    Validated =>
        /\ (last.result = "UnknownComponentDependencyException") => ~last.warned
        /\ last.warned => last.result = "True"

\* validate() has raised on a Bom whose described component is set and has
\* no dependencies: the advisory condition held, and no warning was given
C14_Witness ==
    /\ Validated
    /\ last.result = "UnknownComponentDependencyException"
    /\ IncompleteGraph(bom)
    /\ ~last.warned


---------------------------------------------------------------------------
(* Properties of SpecNew *)

Built == {o \in {objA, objB} : o.kind \in {"Bom", "BomMetaData"}}

\* the tools the caller supplied to the constructor call that built o
Supplied(o) == IF o.args.tools.none THEN {} ELSE Elems(o.args.tools.items)

\* C7 as stated: a new BomMetaData holds ThisTool if and only if the caller
\* supplied no tools (and a new Bom has tools {ThisTool} and no described
\* component).
C7_ThisToolIffNoneSupplied ==
    \A o \in Built :
        /\ o.kind = "BomMetaData" =>
             (ThisTool \in Elems(o.value.tools) <=> Supplied(o) = {})
        /\ o.kind = "Bom" =>
             /\ o.value.metadata.tools = <<ThisTool>>
             /\ o.value.metadata.component = None

\* C7 amended: a new BomMetaData built with tools omitted, None or empty has
\* tools exactly {ThisTool}; built with a non-empty collection it has exactly
\* the supplied tools, each once, so it holds ThisTool only if the caller
\* supplied it. A new Bom has tools {ThisTool} and no described component.
C7_ToolsDefaultToThisTool ==
    \A o \in Built :
        /\ o.kind = "BomMetaData" =>
             /\ Supplied(o) = {} => o.value.tools = <<ThisTool>>
             /\ Supplied(o) # {} =>
                  /\ Elems(o.value.tools) = Supplied(o)
                  /\ Len(o.value.tools) = Cardinality(Supplied(o))
        /\ o.kind = "Bom" =>
             /\ o.value.metadata.tools = <<ThisTool>>
             /\ o.value.metadata.component = None

\* a BomMetaData built from a list naming one tool twice
C7_Witness ==
    /\ objA.kind = "BomMetaData"
    /\ ~objA.args.tools.none
    /\ Len(objA.args.tools.items) = 2
    /\ Supplied(objA) = {"tool_1"}
    /\ objA.value.tools = <<"tool_1">>

\* C8: two Boms built by the same constructor call compare equal under == once
\* they are given the same uuid.
C8_RebuiltBomIsEqual ==
    (/\ cmp.result # "none"
     /\ objA.kind = "Bom"
     /\ objB.kind = "Bom"
     /\ objA.args = objB.args
     /\ objA.value.uuid = objB.value.uuid) => cmp.result = "True"

\* C9: a == b is True exactly when the defining tuples match (timestamp,
\* tools, component for BomMetaData; uuid, metadata, components, services,
\* external references for Bom), equal objects have equal hashes, and an
\* object of another type never compares equal.
C9_EqualityIsStructural ==
    cmp.result # "none" =>
        /\ (objA.kind = "BomMetaData" /\ objB.kind = "BomMetaData") =>
             /\ cmp.result = "True" <=> objA.value = objB.value
             /\ cmp.result = "True" =>
                  BomMetaDataHash(objA.value) = BomMetaDataHash(objB.value)
        /\ (objA.kind = "Bom" /\ objB.kind = "Bom") =>
             /\ cmp.result = "True" <=> objA.value = objB.value
             /\ cmp.result = "True" => BomHash(objA.value) = BomHash(objB.value)
        /\ objA.kind # objB.kind => cmp.result = "False"


====
